---- MODULE Spec2Model ----
(***************************************************************************)
(* Model of GeneralRandomizedResponse                                      *)
(* (src/differential_privacy/randomized_response/generalized.py).          *)
(*                                                                         *)
(* Python floats are IEEE-754 binary floating point numbers.  The model    *)
(* keeps the arithmetic of the format (round to nearest, ties to even,     *)
(* gradual underflow, overflow to infinity, NaN) and scales the format     *)
(* down: PREC significand bits instead of 53, exponents -EMINABS..EMAX     *)
(* instead of -1022..1023.  A finite float is the integer number of units  *)
(* 2^-FRAC it holds, 2^-FRAC being the smallest subnormal.                 *)
(***************************************************************************)
EXTENDS Integers, Sequences, FiniteSets, TLC

PREC == 4
EMINABS == 3
EMAX == 6

RECURSIVE Pow2(_)
Pow2(n) == IF n = 0 THEN 1 ELSE 2 * Pow2(n - 1)

FRAC == EMINABS + PREC - 1
\* 1.0
ONE == Pow2(FRAC)
\* the largest finite float
MAXF == (Pow2(PREC) - 1) * Pow2(EMAX + EMINABS)
\* float('inf'), float('-inf'), float('nan'), None
PINF == MAXF + 1
NINF == 0 - PINF
NAN == MAXF + 2
NONE == MAXF + 3
\* the distance from 1.0 to the next float, and the smallest positive float
ULP1 == ONE \div Pow2(PREC - 1)
MINSUB == ONE \div Pow2(FRAC)

IsInf(a) == a = PINF \/ a = NINF
Sgn(a) == IF a > 0 THEN 1 ELSE IF a < 0 THEN 0 - 1 ELSE 0

\* the floats below MANT units are the integers
MANT == Pow2(PREC)

\* the spacing of the floats around q units (q >= 0)
RECURSIVE Quantum(_)
Quantum(q) == IF q < MANT THEN 1 ELSE 2 * Quantum(q \div 2)

\* n/d units (n >= 0, d > 0) rounded to the nearest float, ties to even
RoundRat(n, d) ==
    LET dq == d * Quantum(n \div d)
        m == n \div dq
        r == n % dq
        up == 2 * r > dq \/ (2 * r = dq /\ m % 2 = 1)
        v == (IF up THEN m + 1 ELSE m) * (dq \div d)
    IN  IF v > MAXF THEN PINF ELSE v

RoundS(n, d) == IF n >= 0 THEN RoundRat(n, d) ELSE 0 - RoundRat(0 - n, d)

FNeg(a) == IF a = NAN THEN NAN ELSE 0 - a

\* a + b
FAdd(a, b) ==
    IF a = NAN \/ b = NAN THEN NAN
    ELSE IF IsInf(a) THEN (IF IsInf(b) /\ b # a THEN NAN ELSE a)
    ELSE IF IsInf(b) THEN b
    ELSE RoundS(a + b, 1)

\* a - b
FSub(a, b) == FAdd(a, FNeg(b))

\* a * b
FMul(a, b) ==
    IF a = NAN \/ b = NAN THEN NAN
    ELSE IF IsInf(a) \/ IsInf(b)
         THEN (IF a = 0 \/ b = 0 THEN NAN
               ELSE IF Sgn(a) * Sgn(b) > 0 THEN PINF ELSE NINF)
    ELSE RoundS(a * b, ONE)

\* a / b for b # 0 (Python raises ZeroDivisionError when b = 0)
FDiv(a, b) ==
    IF a = NAN \/ b = NAN THEN NAN
    ELSE IF IsInf(a)
         THEN (IF IsInf(b) THEN NAN
               ELSE IF Sgn(a) * Sgn(b) > 0 THEN PINF ELSE NINF)
    ELSE IF IsInf(b) THEN 0
    ELSE IF b > 0 THEN RoundS(a * ONE, b) ELSE RoundS(0 - (a * ONE), 0 - b)

\* the comparisons: every comparison with NaN is false, except !=
FEq(a, b) == a # NAN /\ b # NAN /\ a = b
FNe(a, b) == ~FEq(a, b)
FLt(a, b) == a # NAN /\ b # NAN /\ a < b
FLe(a, b) == a # NAN /\ b # NAN /\ a <= b
FGt(a, b) == FLt(b, a)
FGe(a, b) == FLe(b, a)

\* max(a, b) of Python: the first argument unless the second is greater
PyMax(a, b) == IF FGt(b, a) THEN b ELSE a

\* e^eps as a fraction of 10000, for the eps the model calls with
ExpNum(eps) ==
    CASE eps = 0 - 2 * ONE -> 1353
      [] eps = 0 - ONE -> 3679
      [] eps = 0 -> 10000
      [] 2 * eps = ONE -> 16487
      [] eps = ONE -> 27183
      [] eps = 2 * ONE -> 73891
      [] eps = 3 * ONE -> 200855
      [] eps = 4 * ONE -> 545982
      [] eps = 5 * ONE -> 1484132
      [] eps = 6 * ONE -> 4034288

\* math.exp(eps), correctly rounded; PINF for a finite eps is the overflow
Exp(eps) ==
    IF eps = PINF THEN PINF
    ELSE IF eps = NINF THEN 0
    ELSE RoundRat(ExpNum(eps) * ONE, 10000)

\* math.exp(eps) raises OverflowError
ExpOverflows(eps) == ~IsInf(eps) /\ Exp(eps) = PINF

(***************************************************************************)
(* The arguments the model calls the operations with.                      *)
(***************************************************************************)
\* probabilities for the constructor: valid ones, 1.0 + ulp, a negative, NaN
ProbArgs == {0, MINSUB, ONE \div 4, ONE \div 2, 3 * (ONE \div 4), ONE,
             ONE + ULP1, 0 - MINSUB, NAN}
EpsArgs == {NINF, 0 - 2 * ONE, 0 - ONE, 0, ONE \div 2, ONE, 2 * ONE, 3 * ONE,
            4 * ONE, 5 * ONE, 6 * ONE, PINF}
\* the small tolerance of the tests (5e-16 is 2.25 ulp of 1.0)
TolSmall == 2 * ULP1
TolArgs == {0, TolSmall}
\* 1/8 plus one unit in its last place: 1.0 - X8 is not a float
X8 == ONE \div 8 + ONE \div Pow2(PREC + 2)
PiArgs == {NONE, 0, MINSUB, ONE \div 8, X8, ONE \div 2, ONE}
LamArgs == {NONE, 0, ONE \div 4, ONE, 2 * ONE, 0 - MINSUB}

NoRet == <<NONE, NONE>>
NoMatrix == <<<<NONE, NONE>>, <<NONE, NONE>>>>

VARIABLES
    pc,      \* "new": no object yet, "live": constructed, "failed": __init__ raised
    P,       \* self._P, the design matrix, row by row
    warned,  \* warnings.warn was called by __init__
    last     \* the last call: its name, arguments, exception and return value

vars == <<pc, P, warned, last>>

Call(op, args, exc, ret) == [op |-> op, args |-> args, exc |-> exc, ret |-> ret]

Init ==
    /\ pc = "new"
    /\ P = NoMatrix
    /\ warned = FALSE
    /\ last = Call("none", <<NONE, NONE, NONE, NONE>>, "none", NoRet)

RangeMsg == "Probability must be within range [0,1]"
SumMsg == "Probability must sum to 1"

OutOfRange(p) == FGt(p, ONE) \/ FLt(p, 0)

RowSumBad(a, b) == FNe(FAdd(a, b), ONE)

\* __init__ checking the column sums instead of the row sums
InitRaisesColumns(p_00, p_01, p_10, p_11) ==
    IF OutOfRange(p_00) \/ OutOfRange(p_01) \/ OutOfRange(p_10) \/ OutOfRange(p_11)
    THEN RangeMsg
    ELSE IF RowSumBad(p_00, p_10) \/ RowSumBad(p_01, p_11)
    THEN SumMsg
    ELSE "none"

\* the exception __init__ raises, "none" when it raises none
InitRaises(p_00, p_01, p_10, p_11) ==
    IF OutOfRange(p_00) \/ OutOfRange(p_01) \/ OutOfRange(p_10) \/ OutOfRange(p_11)
    THEN RangeMsg
    ELSE IF RowSumBad(p_00, p_01) \/ RowSumBad(p_10, p_11)
    THEN SumMsg
    ELSE "none"

\* GeneralRandomizedResponse(p_00, p_01, p_10, p_11)
Construct(p_00, p_01, p_10, p_11) ==
    /\ pc = "new"
    /\ LET e == InitRaises(p_00, p_01, p_10, p_11)
       IN  /\ last' = Call("__init__", <<p_00, p_01, p_10, p_11>>, e, NoRet)
           /\ IF e # "none"
              THEN /\ pc' = "failed"
                   /\ UNCHANGED <<P, warned>>
              ELSE /\ pc' = "live"
                   /\ warned' = (FEq(p_00, p_11) /\ FEq(p_11, ONE))
                   /\ P' = <<<<p_00, p_01>>, <<p_10, p_11>>>>

\* the matrix set_optimal_utility(eps) stores, given e = math.exp(eps)
OptimalMatrix(e) ==
    LET p_00 == FDiv(e, FAdd(ONE, e))
        p_01 == FDiv(ONE, FAdd(ONE, e))
    IN  <<<<p_00, p_01>>, <<p_01, p_00>>>>

\* set_optimal_utility(eps)
SetOptimalUtility(eps) ==
    /\ pc = "live"
    /\ IF ExpOverflows(eps)
       THEN /\ last' = Call("set_optimal_utility", <<eps, NONE, NONE, NONE>>,
                            "OverflowError", NoRet)
            /\ UNCHANGED P
       ELSE /\ last' = Call("set_optimal_utility", <<eps, NONE, NONE, NONE>>,
                            "none", NoRet)
            /\ P' = OptimalMatrix(Exp(eps))
    /\ UNCHANGED <<pc, warned>>

NegEpsMsg == "Epsilon cannot be negative"

\* the two likelihood ratios of check_eps_privacy
RatioP(M) == IF FEq(M[1][2], 0) THEN PINF ELSE FDiv(M[1][1], M[1][2])
RatioQ(M) == IF FEq(M[2][1], 0) THEN PINF ELSE FDiv(M[2][2], M[2][1])

\* the value check_eps_privacy returns, given e = math.exp(eps)
Audit(M, e, tol) == FLe(PyMax(RatioP(M), RatioQ(M)), FAdd(e, tol))

\* the exception check_eps_privacy raises, "none" when it raises none
CheckRaises(eps) ==
    IF FLt(eps, 0) THEN NegEpsMsg
    ELSE IF ExpOverflows(eps) THEN "OverflowError"
    ELSE "none"

\* the booleans a call returns, as the first component of ret
BTRUE == <<1, NONE>>
BFALSE == <<0, NONE>>

\* check_eps_privacy(eps, tol)
CheckEpsPrivacy(eps, tol) ==
    /\ pc = "live"
    /\ LET e == CheckRaises(eps)
       IN  last' = Call("check_eps_privacy", <<eps, tol, NONE, NONE>>, e,
                        IF e # "none" THEN NoRet
                        ELSE IF Audit(P, Exp(eps), tol) THEN BTRUE ELSE BFALSE)
    /\ UNCHANGED <<pc, P, warned>>

\* the two assignments in the other order: a given pi_1 wins over pi_0
MassPi1Second(pi_0, pi_1) == IF pi_1 # NONE THEN pi_1 ELSE FSub(ONE, pi_0)

\* pi_1 and pi_0 after the two assignments of get_P_X_mass
MassPi1(pi_0, pi_1) == IF pi_0 # NONE THEN FSub(ONE, pi_0) ELSE pi_1
MassPi0(pi_0, pi_1) ==
    IF MassPi1(pi_0, pi_1) # NONE THEN FSub(ONE, MassPi1(pi_0, pi_1)) ELSE pi_0

\* the masses with the cells of the second row taken for each other
PXMassSwapped(M, pi0, pi1) ==
    << FAdd(FMul(pi0, M[1][1]), FMul(pi1, M[1][2])),
       FAdd(FMul(pi1, M[2][1]), FMul(pi0, M[2][2])) >>

\* <<mass['P(Y=0)'], mass['P(Y=1)']>> for the proportions pi0 and pi1
PXMass(M, pi0, pi1) ==
    << FAdd(FMul(pi0, M[1][1]), FMul(pi1, M[1][2])),
       FAdd(FMul(pi1, M[2][2]), FMul(pi0, M[2][1])) >>

\* get_P_X_mass(pi_0, pi_1); None * float raises TypeError
GetPXMass(pi_0, pi_1) ==
    /\ pc = "live"
    /\ IF MassPi0(pi_0, pi_1) = NONE
       THEN last' = Call("get_P_X_mass", <<pi_0, pi_1, NONE, NONE>>,
                         "TypeError", NoRet)
       ELSE last' = Call("get_P_X_mass", <<pi_0, pi_1, NONE, NONE>>, "none",
                         PXMass(P, MassPi0(pi_0, pi_1), MassPi1(pi_0, pi_1)))
    /\ UNCHANGED <<pc, P, warned>>

NotProbMsg == "This is not a probability"

\* the denominator taken from p11 instead of p00
EstDenP11(M) == FSub(FMul(2 * ONE, M[2][2]), ONE)

\* 2 * self._P[0][0] - 1
EstDen(M) == FSub(FMul(2 * ONE, M[1][1]), ONE)

\* the exception the estimate for one observed proportion raises
LambdaRaises(M, lam) ==
    IF lam = NONE THEN "none"
    ELSE IF ~(FGe(lam, 0) /\ FLe(lam, ONE)) THEN NotProbMsg
    ELSE IF FEq(EstDen(M), 0) THEN "ZeroDivisionError"
    ELSE "none"

\* the exception get_unbiased_mean_estimator raises, "none" when none
EstimatorRaises(M, lambda_0, lambda_1) ==
    IF LambdaRaises(M, lambda_0) # "none" THEN LambdaRaises(M, lambda_0)
    ELSE LambdaRaises(M, lambda_1)

\* the estimate with its two terms subtracted instead of added
PihatMinus(M, lam) ==
    IF lam = NONE THEN NONE
    ELSE FSub(FDiv(FSub(M[1][1], ONE), EstDen(M)), FDiv(lam, EstDen(M)))

\* the estimate for one observed proportion, None when it is not supplied
Pihat(M, lam) ==
    IF lam = NONE THEN NONE
    ELSE FAdd(FDiv(FSub(M[1][1], ONE), EstDen(M)), FDiv(lam, EstDen(M)))

\* get_unbiased_mean_estimator(lambda_0, lambda_1)
GetUnbiasedMeanEstimator(lambda_0, lambda_1) ==
    /\ pc = "live"
    /\ LET e == EstimatorRaises(P, lambda_0, lambda_1)
       IN  last' = Call("get_unbiased_mean_estimator",
                        <<lambda_0, lambda_1, NONE, NONE>>, e,
                        IF e # "none" THEN NoRet
                        ELSE <<Pihat(P, lambda_0), Pihat(P, lambda_1)>>)
    /\ UNCHANGED <<pc, P, warned>>

\* the exception get_unbiased_variance_estimator raises: its body is pass
VarianceRaises == "none"

\* get_unbiased_variance_estimator()
GetUnbiasedVarianceEstimator ==
    /\ pc = "live"
    /\ last' = Call("get_unbiased_variance_estimator",
                    <<NONE, NONE, NONE, NONE>>, VarianceRaises, NoRet)
    /\ UNCHANGED <<pc, P, warned>>

\* the observed proportions a caller passes: chosen ones, or the masses
\* the preceding get_P_X_mass call returned
LambdaPairs ==
    (LamArgs \X LamArgs) \cup
    (IF last.op = "get_P_X_mass" /\ last.exc = "none" THEN {last.ret} ELSE {})

Next ==
    \/ \E p_00, p_01, p_10, p_11 \in ProbArgs : Construct(p_00, p_01, p_10, p_11)
    \/ \E eps \in EpsArgs : SetOptimalUtility(eps)
    \/ \E eps \in EpsArgs, tol \in TolArgs : CheckEpsPrivacy(eps, tol)
    \/ \E pi_0, pi_1 \in PiArgs : GetPXMass(pi_0, pi_1)
    \/ \E lam \in LambdaPairs : GetUnbiasedMeanEstimator(lam[1], lam[2])
    \/ GetUnbiasedVarianceEstimator

Spec == Init /\ [][Next]_vars

(***************************************************************************)
(* The claims.                                                             *)
(***************************************************************************)
Identity == <<<<ONE, 0>>, <<0, ONE>>>>
Half == <<<<ONE \div 2, ONE \div 2>>, <<ONE \div 2, ONE \div 2>>>>

InUnit(x) == FGe(x, 0) /\ FLe(x, ONE)

\* every argument in [0,1] and both rows sum to 1.0
ValidArgs(a) ==
    /\ \A i \in 1..4 : InUnit(a[i])
    /\ FEq(FAdd(a[1], a[2]), ONE)
    /\ FEq(FAdd(a[3], a[4]), ONE)

ClaimP(M) == IF M[1][2] = 0 THEN PINF ELSE FDiv(M[1][1], M[1][2])
ClaimQ(M) == IF M[2][1] = 0 THEN PINF ELSE FDiv(M[2][2], M[2][1])
ClaimMax(M) == IF ClaimP(M) >= ClaimQ(M) THEN ClaimP(M) ELSE ClaimQ(M)

\* C2: check_eps_privacy(eps, tol) raises when eps < 0; for every eps >= 0
\* it returns, and returns true iff max(p, q) <= exp(eps) + tol.  The
\* matrix (1,0,0,1) is failed (false is returned) for every finite eps >= 0.
C2_AuditContract ==
    (last.op = "check_eps_privacy" /\ ValidArgs(<<P[1][1], P[1][2], P[2][1], P[2][2]>>)) =>
        IF last.args[1] < 0
        THEN last.exc # "none"
        ELSE /\ last.exc = "none"
             /\ last.ret \in {BTRUE, BFALSE}
             /\ ~ExpOverflows(last.args[1]) =>
                   ((last.ret = BTRUE) <=>
                       ClaimMax(P) <= FAdd(Exp(last.args[1]), last.args[2]))
             /\ (P = Identity /\ last.args[1] # PINF) => last.ret = BFALSE

\* C3: after a successful set_optimal_utility(eps) with eps >= 0, the call
\* check_eps_privacy(eps, tol) with the small tolerance returns true.
C3_CalibrateThenAudit ==
    [][ ( /\ last.op = "set_optimal_utility"
          /\ last.exc = "none"
          /\ last.args[1] >= 0
          /\ last'.op = "check_eps_privacy"
          /\ last'.args[1] = last.args[1]
          /\ last'.args[2] = TolSmall )
        => (last'.exc = "none" /\ last'.ret = BTRUE) ]_vars

\* get_P_X_mass was called with exactly one proportion, a value of [0,1]
OneGiven ==
    /\ last.op = "get_P_X_mass"
    /\ (last.args[1] = NONE) # (last.args[2] = NONE)
    /\ (last.args[1] # NONE => InUnit(last.args[1]))
    /\ (last.args[2] # NONE => InUnit(last.args[2]))

\* the masses of the matrix M for the split (pi0, pi1)
ClaimMass(M, pi0, pi1) ==
    << FAdd(FMul(pi0, M[1][1]), FMul(pi1, M[1][2])),
       FAdd(FMul(pi1, M[2][2]), FMul(pi0, M[2][1])) >>

\* the split as the claim C4 has it: the given value, and 1 - it
GivenPi0(a) == IF a[1] # NONE THEN a[1] ELSE FSub(ONE, a[2])
GivenPi1(a) == IF a[2] # NONE THEN a[2] ELSE FSub(ONE, a[1])

\* the split the code computes from pi_0: pi_1 = 1 - pi_0, pi_0 = 1 - pi_1
FromPi0(x) == <<FSub(ONE, FSub(ONE, x)), FSub(ONE, x)>>
\* the split the code computes from pi_1 alone
FromPi1(x) == <<FSub(ONE, x), x>>

\* C4 as stated: with one proportion x given, the other is 1 - x and the
\* masses are those of the split (x, 1 - x); for the matrix (1,0,0,1) the
\* masses are the split itself, for (.5,.5,.5,.5) P(Y=1) is 0.5.
C4_Original ==
    OneGiven =>
        /\ last.exc = "none"
        /\ last.ret = ClaimMass(P, GivenPi0(last.args), GivenPi1(last.args))
        /\ P = Identity => last.ret = <<GivenPi0(last.args), GivenPi1(last.args)>>
        /\ P = Half => last.ret[2] = ONE \div 2

\* C4 amended: with one proportion given, pi1 is the given pi_1 or
\* 1 - pi_0, and pi0 is 1 - pi1 (so a given pi_0 is recomputed as
\* 1 - (1 - pi_0)); the masses are those of the split (pi0, pi1).  For the
\* matrix (1,0,0,1) the masses are (pi0, pi1), P(Y=1) being a given pi_1
\* itself; for (.5,.5,.5,.5) P(Y=1) is 0.5.
C4_Mass ==
    OneGiven =>
        LET split == IF last.args[1] # NONE THEN FromPi0(last.args[1])
                     ELSE FromPi1(last.args[2])
        IN  /\ last.exc = "none"
            /\ last.ret = ClaimMass(P, split[1], split[2])
            /\ P = Identity => last.ret = split
            /\ (P = Identity /\ last.args[2] # NONE) => last.ret[2] = last.args[2]
            /\ P = Half => last.ret[2] = ONE \div 2

\* a given pi_0 that 1 - (1 - pi_0) does not give back, on the matrix (1,0,0,1)
C4_Witness ==
    /\ OneGiven
    /\ P = Identity
    /\ last.args[1] = X8
    /\ last.ret = <<FSub(ONE, FSub(ONE, X8)), FSub(ONE, X8)>>
    /\ last.ret[1] # X8

BothGiven ==
    /\ last.op = "get_P_X_mass"
    /\ last.args[1] # NONE
    /\ last.args[2] # NONE

\* C5 as stated: with both proportions given the second one wins: the
\* masses are those of the split (1 - pi_1, pi_1).
C5_Original ==
    BothGiven =>
        /\ last.exc = "none"
        /\ last.ret = ClaimMass(P, FSub(ONE, last.args[2]), last.args[2])

\* C5 amended: with both proportions given the first one wins: pi_1 is
\* replaced by 1 - pi_0, the caller's pi_1 is not used, and the masses are
\* those of the call with pi_0 alone.
C5_FirstWins ==
    BothGiven =>
        /\ last.exc = "none"
        /\ last.ret = ClaimMass(P, FromPi0(last.args[1])[1], FromPi0(last.args[1])[2])

\* both given, pi_1 = 0 against pi_0 = 0: the masses are those of pi_1 = 1
C5_Witness ==
    /\ BothGiven
    /\ P = Identity
    /\ last.args = <<0, 0, NONE, NONE>>
    /\ last.ret = <<0, ONE>>

Estimated == last.op = "get_unbiased_mean_estimator"

\* C6 as stated: with p00 = 0.5 every call of get_unbiased_mean_estimator
\* ends in a failure.
C6_Original ==
    (Estimated /\ P[1][1] = ONE \div 2) => last.exc # "none"

\* C6 amended: with p00 = 0.5 every call that supplies at least one
\* proportion fails and returns no estimate: a supplied proportion outside
\* [0,1] is refused, one inside [0,1] divides by zero.  A call that supplies
\* none divides nothing and returns the dictionary with both values None.
C6_NonInvertible ==
    (Estimated /\ P[1][1] = ONE \div 2) =>
        LET l0 == last.args[1]
            l1 == last.args[2]
            first == IF l0 # NONE THEN l0 ELSE l1
        IN  /\ last.ret = NoRet
            /\ (l0 = NONE /\ l1 = NONE) <=> last.exc = "none"
            /\ (first # NONE /\ InUnit(first)) => last.exc = "ZeroDivisionError"
            /\ (first # NONE /\ ~InUnit(first)) => last.exc = NotProbMsg

C6_Witness ==
    /\ Estimated
    /\ P[1][1] = ONE \div 2
    /\ last.args[1] = ONE \div 4
    /\ last.exc = "ZeroDivisionError"

\* C7: get_unbiased_variance_estimator always fails with a not-implemented
\* error; it never completes normally.
C7_NotImplemented ==
    last.op = "get_unbiased_variance_estimator" => last.exc # "none"

\* get_P_X_mass returned for one given proportion and its masses are passed
\* to get_unbiased_mean_estimator
MassThenEstimate ==
    /\ OneGiven
    /\ last.exc = "none"
    /\ last'.op = "get_unbiased_mean_estimator"
    /\ last'.args = <<last.ret[1], last.ret[2], NONE, NONE>>

\* p00 = p11, p01 = p10 = 1 - p00, p00 # 0.5
Symmetric(M) ==
    /\ InUnit(M[1][1])
    /\ M[2][2] = M[1][1]
    /\ M[1][2] = ONE - M[1][1]
    /\ M[2][1] = M[1][2]
    /\ M[1][1] # ONE \div 2

\* C8 as stated: on a symmetric matrix with p00 # 0.5, the estimates for the
\* masses of a split pi0 + pi1 = 1 are pi0 and pi1.
C8_Original ==
    [][ ( /\ MassThenEstimate
          /\ Symmetric(P)
          /\ GivenPi0(last.args) + GivenPi1(last.args) = ONE )
        => ( /\ last'.exc = "none"
             /\ last'.ret = <<GivenPi0(last.args), GivenPi1(last.args)>> ) ]_vars

\* C8 amended: on the matrix (1,0,0,1) the estimates for the masses of a
\* split are the split get_P_X_mass used: pihat_1 = pi1, the given pi_1 or
\* 1 - pi_0, and pihat_0 = 1 - pi1.
C8_IdentityRoundTrip ==
    [][ (MassThenEstimate /\ P = Identity)
        => ( /\ last'.exc = "none"
             /\ last'.ret = (IF last.args[1] # NONE THEN FromPi0(last.args[1])
                             ELSE FromPi1(last.args[2])) ) ]_vars

\* the estimates for the masses of pi_1 = 1/8 on the matrix (1,0,0,1)
C8_Witness ==
    /\ Estimated
    /\ P = Identity
    /\ last.args = <<ONE - ONE \div 8, ONE \div 8, NONE, NONE>>
    /\ last.ret = <<ONE - ONE \div 8, ONE \div 8>>

\* C9: the matrix of a constructed object always has its four cells in
\* [0,1] and rows that sum to 1.0.
C9_MatrixValid ==
    pc = "live" => ValidArgs(<<P[1][1], P[1][2], P[2][1], P[2][2]>>)

\* n/d <= e, exactly; a zero denominator under a non-zero numerator is +inf
RatioWithin(n, d, e) ==
    IF e = PINF THEN TRUE
    ELSE IF d = 0 THEN n = 0
    ELSE n * ONE <= e * d

\* C10: when check_eps_privacy(eps, 0) returns true for a matrix the
\* constructor accepts and eps >= 0, the four likelihood ratios p00/p01,
\* p01/p00, p11/p10 and p10/p11 are at most exp(eps).
C10_AuditSound ==
    ( /\ last.op = "check_eps_privacy"
      /\ last.args[1] >= 0
      /\ last.args[2] = 0
      /\ last.ret = BTRUE
      /\ ValidArgs(<<P[1][1], P[1][2], P[2][1], P[2][2]>>) )
    => LET e == Exp(last.args[1])
       IN  /\ RatioWithin(P[1][1], P[1][2], e)
           /\ RatioWithin(P[1][2], P[1][1], e)
           /\ RatioWithin(P[2][2], P[2][1], e)
           /\ RatioWithin(P[2][1], P[2][2], e)
====
